---- MODULE Spec2Model ----
(***************************************************************************)
(* Amortization schedule builder of credit_calculator (src/app.py).        *)
(*                                                                         *)
(* Number representation.  The program computes in IEEE-754 double         *)
(* precision (Python float) and compares the results with 0 and 0.005, so  *)
(* the model computes in double precision too.  A finite double other      *)
(* than zero is a record [neg, man, exp] standing for                      *)
(* (-1)^neg * man * 2^exp, where man is a natural number of exactly        *)
(* MantBits = 53 bits held as a sequence of base-2^13 limbs, least         *)
(* significant first.  Zero, the infinities and NaN have the empty         *)
(* mantissa and the exponents 0, MaxExp and MaxExp + 1.  A subnormal       *)
(* number keeps the 53-bit form with an exponent below MinExp; its low     *)
(* bits are zero, because every result is rounded at the precision the     *)
(* double format has at its magnitude.                                     *)
(*                                                                         *)
(* Every operation (DAdd, DSub, DMul, DDiv, Decimal, Micro) computes the   *)
(* exact result and rounds it once to the nearest double, ties to even,    *)
(* as the hardware does: a result beyond the double range is an infinity,  *)
(* a result below it is rounded to a subnormal number or to zero, and the  *)
(* operations on infinities and NaN follow IEEE-754.  Division by 0.0      *)
(* yields ZeroDivisionError, as Python raises it.  x ** n is the C         *)
(* library pow, whose result is within one unit in the last place of the   *)
(* exact power but depends on the library: DPow yields both doubles next   *)
(* to the exact power (the power itself when it is a double), computed     *)
(* from a product carried on WorkBits = 104 bits, and OverflowError when   *)
(* the power leaves the double range, as Python raises it.                 *)
(*                                                                         *)
(* round(x, 2) is Round2: the exact value of the double is rounded to a    *)
(* whole number of cents, ties to even, and the result is the double       *)
(* nearest to that decimal number, which is what Python's correctly        *)
(* rounded round() returns; infinities, NaN and doubles without a          *)
(* fractional part are returned unchanged.  sum() adds the entries from    *)
(* left to right, each addition rounded (CPython 3.11 and earlier).        *)
(*                                                                         *)
(* The only feature of the double format that is not represented is the    *)
(* sign of zero: -0.0 and 0.0 are one value.  Python compares the two as   *)
(* equal and raises the same error on a division by either, so the model   *)
(* and the program can differ only in the sign shown for a zero.           *)
(***************************************************************************)
EXTENDS Integers, Sequences, FiniteSets

\* ---------------------------------------------------------------- bounds
MaxYears == 2
MaxPrepayments == 2

\* ------------------------------------------- naturals of arbitrary size
Base == 8192
LimbBits == 13
MantBits == 53
Pow2 == <<1, 2, 4, 8, 16, 32, 64, 128, 256, 512, 1024, 2048, 4096, 8192>>

Limbs == Seq(Int)

MaxOf(S) == CHOOSE x \in S : \A y \in S : y <= x
Limb(a, i) == IF i >= 1 /\ i <= Len(a) THEN a[i] ELSE 0

Trim[a \in Limbs] ==
    LET nz == {i \in 1 .. Len(a) : a[i] # 0}
    IN  IF nz = {} THEN <<>> ELSE SubSeq(a, 1, MaxOf(nz))

\* s: digit sums in 0 .. 2 * Base - 2; the carry out of position i
CarryOut(s, i) ==
    IF \E j \in 1 .. i : s[j] >= Base /\ \A k \in (j + 1) .. i : s[k] = Base - 1
    THEN 1 ELSE 0

Carry[s \in Limbs] ==
    Trim[[i \in 1 .. (Len(s) + 1) |-> (Limb(s, i) + CarryOut(s, i - 1)) % Base]]

AddN[a \in Limbs, b \in Limbs] ==
    Carry[[i \in 1 .. (IF Len(a) >= Len(b) THEN Len(a) ELSE Len(b)) |->
             Limb(a, i) + Limb(b, i)]]

BorrowOut(d, i) ==
    IF \E j \in 1 .. i : d[j] < 0 /\ \A k \in (j + 1) .. i : d[k] = 0
    THEN 1 ELSE 0

Borrow[d \in Limbs] ==
    Trim[[i \in 1 .. Len(d) |-> (d[i] - BorrowOut(d, i - 1) + Base) % Base]]

\* a - b for a >= b
SubN[a \in Limbs, b \in Limbs] ==
    Borrow[[i \in 1 .. Len(a) |-> a[i] - Limb(b, i)]]

CmpN(a, b) ==
    IF Len(a) # Len(b) THEN (IF Len(a) > Len(b) THEN 1 ELSE -1)
    ELSE LET diff == {i \in 1 .. Len(a) : a[i] # b[i]}
         IN  IF diff = {} THEN 0
             ELSE IF a[MaxOf(diff)] > b[MaxOf(diff)] THEN 1 ELSE -1

Spread[c \in Limbs] ==
    AddN[AddN[[i \in 1 .. Len(c) |-> c[i] % Base],
              [i \in 1 .. (Len(c) + 1) |->
                  IF i = 1 THEN 0 ELSE (c[i - 1] \div Base) % Base]],
         [i \in 1 .. (Len(c) + 2) |->
             IF i <= 2 THEN 0 ELSE c[i - 2] \div (Base * Base)]]

MulN[a \in Limbs, b \in Limbs] ==
    IF a = <<>> \/ b = <<>> THEN <<>>
    ELSE LET col[k \in Nat, i \in Nat] ==
                 IF i > Len(a) THEN 0
                 ELSE a[i] * Limb(b, k + 1 - i) + col[k, i + 1]
         IN  Spread[[k \in 1 .. (Len(a) + Len(b) - 1) |-> col[k, 1]]]

ShiftLeft[a \in Limbs, n \in Nat] ==
    LET q == n \div LimbBits
        r == n % LimbBits
    IN  Trim[[i \in 1 .. (Len(a) + q + 1) |->
                 ((Limb(a, i - q) * Pow2[r + 1]) % Base)
                   + (Limb(a, i - q - 1) \div Pow2[LimbBits - r + 1])]]

ShiftRight[a \in Limbs, n \in Nat] ==
    LET q == n \div LimbBits
        r == n % LimbBits
    IN  Trim[[i \in 1 .. (IF Len(a) > q THEN Len(a) - q ELSE 0) |->
                 (Limb(a, i + q) \div Pow2[r + 1])
                   + (Limb(a, i + q + 1) % Pow2[r + 1]) * Pow2[LimbBits - r + 1]]]

BitLen(a) ==
    IF a = <<>> THEN 0
    ELSE LimbBits * (Len(a) - 1)
           + (CHOOSE k \in 1 .. LimbBits :
                 Pow2[k] <= a[Len(a)] /\ a[Len(a)] < Pow2[k + 1])

Bit(a, i) == (Limb(a, (i \div LimbBits) + 1) \div Pow2[(i % LimbBits) + 1]) % 2

\* the bits of a below bit n are all zero
LowZero(a, n) ==
    /\ \A i \in 1 .. (n \div LimbBits) : Limb(a, i) = 0
    /\ Limb(a, (n \div LimbBits) + 1) % Pow2[(n % LimbBits) + 1] = 0

FromNat[n \in Nat] == Trim[<<n % Base, (n \div Base) % Base, n \div (Base * Base)>>]

Max(a, b) == IF a >= b THEN a ELSE b

\* ------------------------------------------------------------- doubles
\* the smallest positive double is 2^MinExp; the finite doubles are below
\* 2^MaxExp
MinExp == -1074
MaxExp == 1024

Doubles == [neg : BOOLEAN, man : Limbs, exp : Int]
Zero == [neg |-> FALSE, man |-> <<>>, exp |-> 0]

\* inf and -inf
Infinity(neg) == [neg |-> neg, man |-> <<>>, exp |-> MaxExp]

\* nan
NaN == [neg |-> FALSE, man |-> <<>>, exp |-> MaxExp + 1]

IsNaN(x) == x.man = <<>> /\ x.exp = MaxExp + 1
IsInf(x) == x.man = <<>> /\ x.exp = MaxExp

\* what an operation yields in place of a number when Python raises
ZeroDivisionError == [error |-> "ZeroDivisionError"]
OverflowError == [error |-> "OverflowError"]
Raised(v) == "error" \in DOMAIN v

\* the double (-1)^neg * k * 2^e for 0 <= k <= 2^MantBits, inf from 2^MaxExp
Normal[neg \in BOOLEAN, k \in Limbs, e \in Int] ==
    IF k = <<>> THEN Zero
    ELSE IF BitLen(k) + e > MaxExp THEN Infinity(neg)
    ELSE IF BitLen(k) > MantBits
    THEN [neg |-> neg, man |-> ShiftRight[k, 1], exp |-> e + 1]
    ELSE [neg |-> neg, man |-> ShiftLeft[k, MantBits - BitLen(k)],
          exp |-> e - (MantBits - BitLen(k))]

\* the number of low bits of m * 2^e a double cannot hold: those beyond
\* MantBits significant bits and those below 2^MinExp (gradual underflow)
Excess(m, e) == Max(BitLen(m) - MantBits, MinExp - e)

\* the double nearest to (-1)^neg * (m + f) * 2^e, 0 <= f < 1, f > 0 iff
\* sticky (then m has more than MantBits bits); ties to even
RoundNE[neg \in BOOLEAN, m \in Limbs, e \in Int, sticky \in BOOLEAN] ==
    IF m = <<>> THEN Zero
    ELSE IF Excess(m, e) <= 0 THEN Normal[neg, m, e]
    ELSE IF Bit(m, Excess(m, e) - 1) = 1
            /\ (sticky \/ ~LowZero(m, Excess(m, e) - 1)
                  \/ Bit(m, Excess(m, e)) = 1)
    THEN Normal[neg, AddN[ShiftRight[m, Excess(m, e)], <<1>>],
                e + Excess(m, e)]
    ELSE Normal[neg, ShiftRight[m, Excess(m, e)], e + Excess(m, e)]

\* -x
DNeg(x) ==
    IF x = Zero \/ IsNaN(x) THEN x ELSE [x EXCEPT !.neg = ~x.neg]

\* x * y
DMul[x \in Doubles, y \in Doubles] ==
    IF IsNaN(x) \/ IsNaN(y) THEN NaN
    ELSE IF IsInf(x) \/ IsInf(y)
    THEN (IF x = Zero \/ y = Zero THEN NaN ELSE Infinity(x.neg # y.neg))
    ELSE RoundNE[x.neg # y.neg, MulN[x.man, y.man], x.exp + y.exp, FALSE]

\* |x| ? |y| as -1, 0, 1, for x and y other than nan
CmpMag(x, y) ==
    IF x.man = <<>> /\ y.man = <<>>
    THEN (IF x.exp = y.exp THEN 0 ELSE IF x.exp > y.exp THEN 1 ELSE -1)
    ELSE IF x.man = <<>> THEN (IF x = Zero THEN -1 ELSE 1)
    ELSE IF y.man = <<>> THEN (IF y = Zero THEN 1 ELSE -1)
    ELSE IF x.exp # y.exp THEN (IF x.exp > y.exp THEN 1 ELSE -1)
    ELSE CmpN(x.man, y.man)

AddAligned[neg \in BOOLEAN, a \in Limbs, b \in Limbs, e \in Int] ==
    RoundNE[neg, AddN[a, b], e, FALSE]

SubAligned[neg \in BOOLEAN, a \in Limbs, b \in Limbs, e \in Int] ==
    IF CmpN(a, b) >= 0 THEN RoundNE[neg, SubN[a, b], e, FALSE]
    ELSE RoundNE[~neg, SubN[b, a], e, FALSE]

\* a term more than FarApart binary places below the other does not change
\* the rounded sum
FarApart == 64

\* x + y
DAdd[x \in Doubles, y \in Doubles] ==
    IF IsNaN(x) \/ IsNaN(y) THEN NaN
    ELSE IF IsInf(x) THEN (IF IsInf(y) /\ x.neg # y.neg THEN NaN ELSE x)
    ELSE IF IsInf(y) THEN y
    ELSE IF y = Zero THEN x
    ELSE IF x = Zero THEN y
    ELSE IF x.exp - y.exp > FarApart THEN x
    ELSE IF y.exp - x.exp > FarApart THEN y
    ELSE IF x.exp >= y.exp
    THEN (IF x.neg = y.neg
          THEN AddAligned[x.neg, ShiftLeft[x.man, x.exp - y.exp], y.man, y.exp]
          ELSE SubAligned[x.neg, ShiftLeft[x.man, x.exp - y.exp], y.man, y.exp])
    ELSE (IF x.neg = y.neg
          THEN AddAligned[x.neg, x.man, ShiftLeft[y.man, y.exp - x.exp], x.exp]
          ELSE SubAligned[x.neg, x.man, ShiftLeft[y.man, y.exp - x.exp], x.exp])

\* x - y
DSub[x \in Doubles, y \in Doubles] == DAdd[x, DNeg(y)]

\* x < y (False when either is nan)
DLess(x, y) ==
    IF IsNaN(x) \/ IsNaN(y) THEN FALSE
    ELSE IF x.neg # y.neg THEN x.neg
    ELSE IF x.neg THEN CmpMag(x, y) > 0 ELSE CmpMag(x, y) < 0

\* x <= y (False when either is nan)
DLessEq(x, y) == ~IsNaN(x) /\ ~IsNaN(y) /\ ~DLess(y, x)

\* x > 0
DPositive(x) == DLess(Zero, x)

\* long division, one quotient bit per step, then the rounding
DivStep[r2 \in Limbs, d \in Limbs, q2 \in Limbs, n \in Nat, neg \in BOOLEAN, e \in Int] ==
    IF n = 0 THEN RoundNE[neg, q2, e, r2 # <<>>]
    ELSE IF CmpN(r2, d) >= 0
    THEN DivStep[ShiftLeft[SubN[r2, d], 1], d,
                 ShiftLeft[AddN[q2, <<1>>], 1], n - 1, neg, e]
    ELSE DivStep[ShiftLeft[r2, 1], d, ShiftLeft[q2, 1], n - 1, neg, e]

QuotBits == 56

\* x / y; float division by zero raises
DDiv[x \in Doubles, y \in Doubles] ==
    IF y = Zero THEN ZeroDivisionError
    ELSE IF IsNaN(x) \/ IsNaN(y) THEN NaN
    ELSE IF IsInf(x)
    THEN (IF IsInf(y) THEN NaN ELSE Infinity(x.neg # y.neg))
    ELSE IF IsInf(y) \/ x = Zero THEN Zero
    ELSE DivStep[x.man, y.man, <<>>, QuotBits, x.neg # y.neg,
                 x.exp - y.exp - QuotBits]

FromInt[n \in Int] ==
    IF n >= 0 THEN RoundNE[FALSE, FromNat[n], 0, FALSE]
    ELSE RoundNE[TRUE, FromNat[-n], 0, FALSE]

\* floor(a / d) for 0 < d < Base
ShortDiv[a \in Limbs, d \in Nat] ==
    LET rem[i \in Nat] ==
            IF i > Len(a) THEN 0 ELSE (rem[i + 1] * Base + a[i]) % d
    IN  Trim[[i \in 1 .. Len(a) |-> (rem[i + 1] * Base + a[i]) \div d]]

\* a % d for 0 < d < Base
ShortRem[a \in Limbs, d \in Nat, i \in Nat] ==
    IF i > Len(a) THEN 0 ELSE (ShortRem[a, d, i + 1] * Base + a[i]) % d

DecimalShift == 78

\* the double nearest to (-1)^neg * (a / d) / 2^DecimalShift
Quotient[neg \in BOOLEAN, a \in Limbs, d \in Nat, inexact \in BOOLEAN] ==
    RoundNE[neg, ShortDiv[a, d], -DecimalShift,
            inexact \/ ShortRem[a, d, 1] # 0]

\* the double nearest to n / d, 0 < d < Base: a decimal literal
Decimal[n \in Int, d \in Nat] ==
    Quotient[n < 0, ShiftLeft[FromNat[IF n < 0 THEN -n ELSE n], DecimalShift],
             d, FALSE]

QuotientThousand[neg \in BOOLEAN, a \in Limbs] ==
    Quotient[neg, ShortDiv[a, 1000], 1000, ShortRem[a, 1000, 1] # 0]

\* the double nearest to n / 10^6
Micro[n \in Int] ==
    QuotientThousand[n < 0,
        ShiftLeft[FromNat[IF n < 0 THEN -n ELSE n], DecimalShift]]

\* the doubles next to (-1)^neg * (m + f) * 2^e, 0 <= f < 1, f > 0 iff
\* sticky: the value itself when it is a double, else the one below and the
\* one above
Neighbours[neg \in BOOLEAN, m \in Limbs, e \in Int, sticky \in BOOLEAN] ==
    IF m = <<>> THEN {Zero}
    ELSE IF Excess(m, e) <= 0 /\ ~sticky THEN {Normal[neg, m, e]}
    ELSE IF Excess(m, e) <= 0
    THEN Neighbours[neg, ShiftLeft[m, 1 - Excess(m, e)],
                    e - (1 - Excess(m, e)), sticky]
    ELSE {Normal[neg, ShiftRight[m, Excess(m, e)], e + Excess(m, e)]}
         \cup (IF sticky \/ ~LowZero(m, Excess(m, e))
               THEN {Normal[neg, AddN[ShiftRight[m, Excess(m, e)], <<1>>],
                            e + Excess(m, e)]}
               ELSE {})

\* a power beyond the double range raises
PowResult(r) == IF IsInf(r) THEN OverflowError ELSE r

\* x ** n is computed as a running product [acc, e, inexact] standing for
\* (acc + f) * 2^e, 0 <= f < 1, f > 0 iff inexact, carried on WorkBits
\* significant bits (truncated)
WorkBits == 104
Products == [acc : Limbs, e : Int, inexact : BOOLEAN]

\* the product p multiplied by m * 2^xe
PowStep[p \in Products, m \in Limbs, xe \in Int] ==
    IF BitLen(p.acc) > WorkBits
    THEN [acc |-> MulN[ShiftRight[p.acc, BitLen(p.acc) - WorkBits], m],
          e |-> p.e + (BitLen(p.acc) - WorkBits) + xe,
          inexact |-> p.inexact \/ ~LowZero(p.acc, BitLen(p.acc) - WorkBits)]
    ELSE [acc |-> MulN[p.acc, m], e |-> p.e + xe, inexact |-> p.inexact]

\* the product p multiplied n times by m * 2^xe
PowSteps[p \in Products, m \in Limbs, xe \in Int, n \in Nat] ==
    IF n = 0 THEN p
    ELSE IF n = 1 THEN PowStep[p, m, xe]
    ELSE PowSteps[PowSteps[p, m, xe, n \div 2], m, xe, n - (n \div 2)]

\* the doubles next to the product p
PowResults[neg \in BOOLEAN, p \in Products] ==
    {PowResult(r) : r \in Neighbours[neg, p.acc, p.e, p.inexact]}

\* x ** n for n >= 1 through the C library pow, which is accurate to less
\* than one unit in the last place but not always correctly rounded: every
\* double that close to the exact power is a possible result; nan ** n is
\* nan and inf ** n is inf
DPow[x \in Doubles, n \in Nat] ==
    IF IsNaN(x) THEN {NaN}
    ELSE IF IsInf(x) THEN {Infinity(x.neg /\ n % 2 = 1)}
    ELSE PowResults[x.neg /\ n % 2 = 1,
                    PowSteps[[acc |-> x.man, e |-> x.exp, inexact |-> FALSE],
                             x.man, x.exp, n - 1]]

\* the integer nearest to m / 2^sh, ties to even
Round2Mag[m \in Limbs, sh \in Nat] ==
    IF sh > 0 /\ Bit(m, sh - 1) = 1
       /\ (~LowZero(m, sh - 1) \/ Bit(m, sh) = 1)
    THEN AddN[ShiftRight[m, sh], <<1>>]
    ELSE ShiftRight[m, sh]

\* round(x, 2): x * 100 is rounded to an integer, ties to even, and the
\* result is the double nearest to that integer / 100; inf, nan and the
\* doubles that are integers are returned as they are
Round2[x \in Doubles] ==
    IF x.man = <<>> \/ x.exp >= 0 THEN x
    ELSE Quotient[x.neg,
                  ShiftLeft[Round2Mag[MulN[x.man, <<100>>], -x.exp],
                            DecimalShift],
                  100, FALSE]

\* ------------------------------------------------- the program's numbers
One == FromInt[1]
Hundred == FromInt[100]
MonthsPerYear == 12
StopBalance == Decimal[5, 1000]
FloorPrincipal == Decimal[1, 100]
CapFactor == 1000
PreviewRows == 12

\* max(0.0, x)
Max0[x \in Doubles] == IF DPositive(x) THEN x ELSE Zero

\* ------------------------------------------------------------ input sets
Principals == {Zero, Micro[47000], FromInt[250]}
YearsSet == (-1) .. MaxYears
Rates == {Zero, FromInt[12]}
Strategies == {"reduce_term", "reduce_payment"}
PrepayEvents ==
    {[month |-> 3, amount |-> Zero],
     [month |-> 3, amount |-> Micro[40000]],
     [month |-> 3, amount |-> FromInt[1000]],
     [month |-> 12, amount |-> FromInt[30]]}
PrepayLists == UNION {[1 .. k -> PrepayEvents] : k \in 0 .. MaxPrepayments}

\* the lists tried with every term: none, one event, two events that each
\* leave a balance, and two events of which the second pays the loan off
ListsAnyTerm ==
    {<<>>} \cup {<<e>> : e \in PrepayEvents}
    \cup {<<[month |-> 3, amount |-> Micro[40000]],
            [month |-> 12, amount |-> FromInt[30]]>>,
          <<[month |-> 3, amount |-> Micro[40000]],
            [month |-> 12, amount |-> FromInt[1000]]>>}

\* 2^k
PowerOfTwo[k \in Int] ==
    [neg |-> FALSE, man |-> ShiftLeft[<<1>>, MantBits - 1],
     exp |-> k - (MantBits - 1)]

\* rates at the ends of the range: 2^-36 (the payment loses its accuracy in
\* factor - 1), 2^-60 (1 + monthly_rate is 1.0), 1200000 (the first payment
\* does not cover the interest), 2^1000 (the power leaves the double range)
ExtremeRates ==
    {PowerOfTwo[-36], PowerOfTwo[-60], FromInt[1200000], PowerOfTwo[1000]}
ExtremePrepayLists == {<<>>, <<[month |-> 3, amount |-> Micro[40000]]>>}

\* rates just outside the everyday range: 0.00001 % and 10000 %
BeyondRates == {Micro[10], FromInt[10000]}

\* 1/150 at rate 0 over one year: the balance after the third payment is
\* exactly 0.005
ThresholdPrincipal == DDiv[One, FromInt[150]]

\* a prepayment of 2^-43, below the spacing of the doubles around the balance
\* it is subtracted from
AbsorbedPrepayment == <<[month |-> 3, amount |-> PowerOfTwo[-43]]>>

\* 5120.778873498672: at 12 % over one year the payment is
\* 454.97499999999997, the double just below a half cent
HalfCentPrincipal ==
    [neg |-> FALSE, man |-> <<3204, 519, 4569, 2049, 1>>, exp |-> -40]

\* 10 000 000 and 10^13
TenMillion == FromInt[10000000]
TenBillionThousand == DMul[TenMillion, FromInt[1000000]]

\* principals and rates at the edges of the everyday range and beyond it
EdgePrincipals ==
    {FromInt[250], HalfCentPrincipal, TenMillion, TenBillionThousand}
EdgeRates == {Decimal[1, 100], FromInt[12], FromInt[36]}
EdgePrepayLists ==
    {<<>>, <<[month |-> 3, amount |-> Micro[40000]]>>,
     <<[month |-> 3, amount |-> FromInt[1000]]>>}

\* 1 200 000 over 20 years at 10 %, without prepayment and with 500 000
\* prepaid in month 12
ScenarioCalls ==
    [loan_amount : {FromInt[1200000]}, years : {20},
     interest_rate : {FromInt[10]},
     prepayments : {<<>>, <<[month |-> 12, amount |-> FromInt[500000]]>>},
     strategy : Strategies]

\* a long loan: no prepayment under "reduce_term", or one prepayment in
\* month 1 under "reduce_payment"
LongCall(principal, term, rate, extra) ==
    [loan_amount |-> principal, years |-> term, interest_rate |-> rate,
     prepayments |-> IF extra = Zero THEN <<>>
                     ELSE <<[month |-> 1, amount |-> extra]>>,
     strategy |-> IF extra = Zero THEN "reduce_term" ELSE "reduce_payment"]

\* 10 000 000 over 30 years at 36 %, and the loans next to it: a principal
\* of 700 000 000, a term of 40 or 41 years, a rate of 50 % or 55 %
LongCalls ==
    {LongCall(TenMillion, 30, FromInt[36], Zero),
     LongCall(TenMillion, 30, FromInt[36], Decimal[1, 100]),
     LongCall(FromInt[700000000], 30, FromInt[36], Zero),
     LongCall(FromInt[700000000], 30, FromInt[36], FromInt[1000]),
     LongCall(TenMillion, 40, FromInt[36], Zero),
     LongCall(TenMillion, 41, FromInt[36], Decimal[1, 100]),
     LongCall(TenMillion, 30, FromInt[50], Zero),
     LongCall(TenMillion, 30, FromInt[55], Decimal[1, 100])}

\* the calls explored
Calls ==
    [loan_amount : Principals, years : YearsSet, interest_rate : Rates,
     prepayments : ListsAnyTerm, strategy : Strategies]
    \cup
    [loan_amount : Principals, years : {1}, interest_rate : Rates,
     prepayments : PrepayLists, strategy : Strategies]
    \cup
    [loan_amount : {FromInt[250]}, years : {1}, interest_rate : ExtremeRates,
     prepayments : ExtremePrepayLists, strategy : Strategies]
    \cup
    [loan_amount : {ThresholdPrincipal}, years : {1}, interest_rate : {Zero},
     prepayments : {<<>>}, strategy : Strategies]
    \cup
    [loan_amount : {Micro[47000], FromInt[250], HalfCentPrincipal},
     years : {1}, interest_rate : {FromInt[12]},
     prepayments : {AbsorbedPrepayment}, strategy : Strategies]
    \cup
    [loan_amount : {FromInt[250], TenMillion}, years : {1},
     interest_rate : BeyondRates, prepayments : ExtremePrepayLists,
     strategy : Strategies]
    \cup
    [loan_amount : EdgePrincipals, years : {1}, interest_rate : EdgeRates,
     prepayments : EdgePrepayLists, strategy : Strategies]
    \cup ScenarioCalls
    \cup LongCalls

\* ------------------------------------------------------------ the annuity
\* interest_rate / 100 / 12
MonthlyRate(rate) == DDiv[DDiv[rate, Hundred], FromInt[MonthsPerYear]]

\* balance * (monthly_rate * factor) / (factor - 1)
AnnuityWith[balance \in Doubles, rate \in Doubles, factor \in Doubles] ==
    DDiv[DMul[balance, DMul[rate, factor]], DSub[factor, One]]

\* the same when computing the factor may have raised
AnnuityFrom(balance, rate, factor) ==
    IF Raised(factor) THEN factor ELSE AnnuityWith[balance, rate, factor]

AnnuityOneMorePeriod(balance, rate, n) ==
    IF rate = Zero THEN {DDiv[balance, FromInt[n + 1]]}
    ELSE {AnnuityFrom(balance, rate, f) : f \in DPow[DAdd[One, rate], n + 1]}

\* the possible results of computing the payment that amortises `balance`
\* over n periods at the monthly `rate`: numbers or exceptions
Annuity(balance, rate, n) ==
    IF rate = Zero THEN {DDiv[balance, FromInt[n]]}
    ELSE {AnnuityFrom(balance, rate, f) : f \in DPow[DAdd[One, rate], n]}

\* ---------------------------------------------------------- prepay_map
EmptyMap == [m \in {} |-> Zero]

RECURSIVE PrepayMapFirstWins(_)
PrepayMapFirstWins(ps) ==
    IF ps = <<>> THEN EmptyMap
    ELSE LET rest == PrepayMapFirstWins(SubSeq(ps, 1, Len(ps) - 1))
             p == ps[Len(ps)]
         IN  IF DPositive(p.amount) /\ p.month \notin DOMAIN rest
             THEN [m \in DOMAIN rest \cup {p.month} |->
                      IF m = p.month THEN p.amount ELSE rest[m]]
             ELSE rest

\* the dict comprehension: events are visited in list order, an event with
\* amount > 0 stores (and overwrites) the entry of its month
RECURSIVE PrepayMapOf(_)
PrepayMapOf(ps) ==
    IF ps = <<>> THEN EmptyMap
    ELSE LET rest == PrepayMapOf(SubSeq(ps, 1, Len(ps) - 1))
             p == ps[Len(ps)]
         IN  IF DPositive(p.amount)
             THEN [m \in DOMAIN rest \cup {p.month} |->
                      IF m = p.month THEN p.amount ELSE rest[m]]
             ELSE rest

\* prepay_map.get(k, 0.0)
MapGet(map, k) == IF k \in DOMAIN map THEN map[k] ELSE Zero

\* ------------------------------------------------------------- the state
VARIABLES loan_amount, years, interest_rate, prepayments, strategy,
          prepay_map, monthly_rate, total_payments, monthly_payment,
          remaining_balance, current_payment_index, schedule, total_paid,
          overpayment, summary, exception, pc

inputs == <<loan_amount, years, interest_rate, prepayments, strategy>>
locals == <<prepay_map, monthly_rate, total_payments, monthly_payment,
            remaining_balance, current_payment_index, schedule>>
vars == <<loan_amount, years, interest_rate, prepayments, strategy,
          prepay_map, monthly_rate, total_payments, monthly_payment,
          remaining_balance, current_payment_index, schedule, total_paid,
          overpayment, summary, exception, pc>>

NoSummary == [total_payments |-> -1]

NoException == "none"

Init ==
    /\ \E c \in Calls :
          /\ loan_amount = c.loan_amount
          /\ years = c.years
          /\ interest_rate = c.interest_rate
          /\ prepayments = c.prepayments
          /\ strategy = c.strategy
    /\ prepay_map = EmptyMap
    /\ monthly_rate = Zero
    /\ total_payments = 0
    /\ monthly_payment = Zero
    /\ remaining_balance = Zero
    /\ current_payment_index = 0
    /\ schedule = <<>>
    /\ total_paid = Zero
    /\ overpayment = Zero
    /\ summary = NoSummary
    /\ exception = NoException
    /\ pc = "call"

\* ------------------------------------------------- one loop iteration
\* remaining_balance * monthly_rate if monthly_rate > 0 else 0.0
InterestPayment(balance) ==
    IF DPositive(monthly_rate) THEN DMul[balance, monthly_rate] ELSE Zero

\* monthly_payment - interest_payment, replaced by 0.01 when it is not
\* positive at a positive rate
PrincipalPayment(payment, interest) ==
    IF DLessEq(DSub[payment, interest], Zero) /\ DPositive(monthly_rate)
    THEN FloorPrincipal
    ELSE DSub[payment, interest]

\* the balance after the standard payment of the period
AfterStandard(balance, principal) == Max0[DSub[balance, principal]]

\* is the period's prepayment applied to the balance
ExtraApplied(extra, balance) == DPositive(extra) /\ DPositive(balance)

\* the balance after the period's prepayment, if it is applied
AfterExtra(extra, balance) ==
    IF ExtraApplied(extra, balance) THEN Max0[DSub[balance, extra]]
    ELSE balance

PaymentsLeftOffByOne(index) == Max(1, total_payments - index + 1)

PaymentsLeft(index) == Max(1, total_payments - index)

NextPaymentAnyStrategy(extra, afterStd, afterExtra, index) ==
    IF DPositive(extra) /\ DPositive(afterStd) /\ DPositive(afterExtra)
    THEN Annuity(afterExtra, monthly_rate, Max(1, total_payments - index))
    ELSE {monthly_payment}

NextPaymentNever(extra, afterStd, afterExtra, index) == {monthly_payment}

\* the possible monthly payments after the period (or exceptions)
NextPayment(extra, afterStd, afterExtra, index) ==
    IF ExtraApplied(extra, afterStd) /\ strategy = "reduce_payment"
       /\ DPositive(afterExtra)
    THEN Annuity(afterExtra, monthly_rate, PaymentsLeft(index))
    ELSE {monthly_payment}

\* the appended row
Entry(index, principal, interest, extra, newBalance) ==
    [month |-> index,
     payment |-> Round2[DAdd[principal, interest]],
     principal |-> Round2[principal],
     interest |-> Round2[interest],
     extra |-> Round2[extra],
     remaining_balance |-> Round2[newBalance]]

\* the break test after a period: remaining_balance <= 0.005
StopReached(balance) == DLessEq(balance, StopBalance)

LoopGuard ==
    /\ DPositive(remaining_balance)
    /\ current_payment_index < CapFactor * total_payments

\* ----------------------------------------------------------- the actions
AfterInvalidTermFallsThrough == "loop"

\* where control is after `raise ValueError`: the call is abandoned
AfterInvalidTerm == "raised"

RaiseInvalidTerm ==
    /\ pc = "call"
    /\ years * MonthsPerYear <= 0
    /\ pc' = AfterInvalidTerm
    /\ exception' = "ValueError"
    /\ UNCHANGED <<inputs, locals, total_paid, overpayment, summary>>

\* computing the first payment raises
RaiseArithmeticError ==
    /\ pc = "call"
    /\ years * MonthsPerYear > 0
    /\ \E rate \in {MonthlyRate(interest_rate)} :
       \E payment \in Annuity(loan_amount, rate, years * MonthsPerYear) :
          /\ Raised(payment)
          /\ exception' = payment.error
    /\ pc' = "raised"
    /\ UNCHANGED <<inputs, locals, total_paid, overpayment, summary>>

Prepare ==
    /\ pc = "call"
    /\ years * MonthsPerYear > 0
    /\ prepay_map' = PrepayMapOf(prepayments)
    /\ \E rate \in {MonthlyRate(interest_rate)} :
       \E payment \in Annuity(loan_amount, rate, years * MonthsPerYear) :
          /\ ~Raised(payment)
          /\ monthly_rate' = rate
          /\ monthly_payment' = payment
    /\ total_payments' = years * MonthsPerYear
    /\ schedule' = <<>>
    /\ remaining_balance' = loan_amount
    /\ current_payment_index' = 0
    /\ pc' = "loop"
    /\ UNCHANGED <<inputs, total_paid, overpayment, summary, exception>>

\* each figure of the period is computed once, in the order of the code
Iterate ==
    /\ pc = "loop"
    /\ LoopGuard
    /\ \E index \in {current_payment_index + 1} :
       \E interest \in {InterestPayment(remaining_balance)} :
       \E principal \in {PrincipalPayment(monthly_payment, interest)} :
       \E afterStd \in {AfterStandard(remaining_balance, principal)} :
       \E extra \in {MapGet(prepay_map, index)} :
       \E afterExtra \in {AfterExtra(extra, afterStd)} :
       \E payment \in NextPayment(extra, afterStd, afterExtra, index) :
          IF Raised(payment)
          THEN /\ pc' = "raised"
               /\ exception' = payment.error
               /\ UNCHANGED <<current_payment_index, monthly_payment,
                              schedule, remaining_balance>>
          ELSE /\ current_payment_index' = index
               /\ monthly_payment' = payment
               /\ schedule' = Append(schedule,
                     Entry(index, principal, interest, extra, afterExtra))
               /\ IF StopReached(afterExtra)
                  THEN remaining_balance' = Zero /\ pc' = "totals"
                  ELSE remaining_balance' = afterExtra /\ pc' = "loop"
               /\ UNCHANGED exception
    /\ UNCHANGED <<inputs, prepay_map, monthly_rate, total_payments,
                   total_paid, overpayment, summary>>

ExitLoop ==
    /\ pc = "loop"
    /\ ~LoopGuard
    /\ pc' = "totals"
    /\ UNCHANGED <<inputs, locals, total_paid, overpayment, summary, exception>>

\* acc + xs[lo] + ... + xs[hi], added from left to right
SumFrom[xs \in Seq(Doubles), lo \in Nat, hi \in Nat, acc \in Doubles] ==
    IF lo > hi THEN acc
    ELSE IF lo = hi THEN DAdd[acc, xs[lo]]
    ELSE SumFrom[xs, ((lo + hi) \div 2) + 1, hi,
                 SumFrom[xs, lo, (lo + hi) \div 2, acc]]

\* sum(r[f] for r in schedule)
SumField(s, f) == SumFrom[[i \in 1 .. Len(s) |-> s[i][f]], 1, Len(s), Zero]

Return ==
    /\ pc = "totals"
    /\ \E paid \in {DAdd[SumField(schedule, "payment"),
                         SumField(schedule, "extra")]} :
          /\ total_paid' = paid
          /\ overpayment' = DSub[paid, loan_amount]
    /\ pc' = "returned"
    /\ UNCHANGED <<inputs, locals, summary, exception>>

\* round((overpayment / loan_amount) * 100, 2) if loan_amount > 0 else 0.0
OverpaymentPercentage ==
    IF DPositive(loan_amount)
    THEN Round2[DMul[DDiv[overpayment, loan_amount], Hundred]]
    ELSE Zero

calculate_mortgage ==
    /\ pc = "returned"
    /\ summary' =
         [monthly_payment |-> Round2[monthly_payment],
          total_payment |-> Round2[total_paid],
          overpayment |-> Round2[overpayment],
          overpayment_percentage |-> OverpaymentPercentage,
          payment_schedule |->
              SubSeq(schedule, 1,
                     IF Len(schedule) < PreviewRows THEN Len(schedule)
                     ELSE PreviewRows),
          full_schedule |-> schedule,
          total_payments |-> Len(schedule)]
    /\ pc' = "done"
    /\ UNCHANGED <<inputs, locals, total_paid, overpayment, exception>>

Next ==
    \/ RaiseInvalidTerm
    \/ RaiseArithmeticError
    \/ Prepare
    \/ Iterate
    \/ ExitLoop
    \/ Return
    \/ calculate_mortgage

Spec == Init /\ [][Next]_vars

\* the call runs to completion: single-threaded, synchronous, no blocking
FairSpec == Spec /\ WF_vars(Next)

\* ------------------------------------------------------------ properties
Last(s) == s[Len(s)]

\* principal > 0, termMonths > 0, rate >= 0
ValidLoan ==
    /\ DPositive(loan_amount)
    /\ years * MonthsPerYear > 0
    /\ DLessEq(Zero, interest_rate)

\* a rate that is 0 or between 0.01 % and 36 %
OrdinaryRate ==
    \/ interest_rate = Zero
    \/ /\ DLessEq(Decimal[1, 100], interest_rate)
       /\ DLessEq(interest_rate, FromInt[36])

\* a valid loan of at most 10 000 000 over at most 30 years at a rate that
\* is 0 or between 0.01 % and 36 %: the rounding errors of the payment and
\* of the balance stay far below the 0.005 stop threshold
OrdinaryLoan ==
    /\ ValidLoan
    /\ DLessEq(loan_amount, TenMillion)
    /\ years <= 30
    /\ OrdinaryRate

\* the loop has been left
LoopDone == pc \in {"totals", "returned", "done"}

\* the payments the first computation can yield, for every loan explored
InitialPayments ==
    [k \in {<<d.loan_amount, d.years, d.interest_rate>> :
               d \in {e \in Calls : e.years > 0}} |->
        {p \in Annuity(k[1], MonthlyRate(k[3]), k[2] * MonthsPerYear) :
            ~Raised(p)}]

InitialPayment == InitialPayments[<<loan_amount, years, interest_rate>>]

\* 0.01
Cent == Decimal[1, 100]

\* the payment exceeds 0.01, so that the balance left before the last
\* nominal period, payment / (1 + rate), is well above the 0.005 stop
\* threshold
PaymentAboveCent(payment) == DLess(Cent, payment)

\* two amounts of two decimals that are equal or 0.01 apart: |a - b| < 0.015
WithinCent(a, b) ==
    /\ DLess(DSub[a, b], Decimal[15, 1000])
    /\ DLess(DSub[b, a], Decimal[15, 1000])

\* the balance at the start of period i, as the schedule shows it
StartBalance(i) ==
    IF i = 1 THEN Round2[loan_amount] ELSE schedule[i - 1].remaining_balance

\* the amount of the last event of the list for month m with amount > 0,
\* 0.0 when there is none
LastPositive(m) ==
    LET idx == {i \in 1 .. Len(prepayments) :
                   prepayments[i].month = m /\ DPositive(prepayments[i].amount)}
    IN  IF idx = {} THEN Zero
        ELSE prepayments[CHOOSE i \in idx : \A j \in idx : j <= i].amount

\* every event of the list has amount > 0 and a month within the term
AllPrepaymentsInTerm ==
    /\ prepayments # <<>>
    /\ \A i \in 1 .. Len(prepayments) :
          /\ DPositive(prepayments[i].amount)
          /\ prepayments[i].month \in 1 .. (years * MonthsPerYear)

\* the last of the months 1 .. k that carries a prepayment of at least
\* `least`, 0 when there is none
LastPrepaid(k, least) ==
    LET ms == {m \in DOMAIN prepay_map : m <= k /\ DLessEq(least, prepay_map[m])}
    IN  IF ms = {} THEN 0 ELSE MaxOf(ms)

\* the call is the scenario of the specification: 1 200 000 over 20 years
\* at 10 %
Scenario ==
    /\ loan_amount = FromInt[1200000]
    /\ years = 20
    /\ interest_rate = FromInt[10]

\* C1 as stated: without prepayments a valid loan yields exactly termMonths
\* entries and the last entry's remaining_balance is 0.
C1_Original ==
    (LoopDone /\ ValidLoan /\ prepayments = <<>>) =>
        /\ Len(schedule) = total_payments
        /\ Last(schedule).remaining_balance = Zero

\* C1 amended: without prepayments a valid loan of at most 10 000 000 over
\* at most 30 years at a rate of 0 or 0.01 % to 36 % whose monthly payment
\* exceeds 0.01 yields exactly termMonths entries and the last entry's
\* remaining_balance is 0; when the payment is 0.01 or less the schedule
\* has at least one and at most termMonths entries.
C1_Amended ==
    (LoopDone /\ OrdinaryLoan /\ prepayments = <<>>) =>
        /\ Len(schedule) >= 1
        /\ Len(schedule) <= total_payments
        /\ PaymentAboveCent(monthly_payment) =>
              /\ Len(schedule) = total_payments
              /\ Last(schedule).remaining_balance = Zero

\* the scenario without prepayment: 240 entries, payment 11580.26
C1_Witness ==
    /\ pc = "done" /\ Scenario /\ OrdinaryLoan /\ prepayments = <<>>
    /\ Len(schedule) = 240
    /\ Last(schedule).remaining_balance = Zero
    /\ summary.monthly_payment = Decimal[1158026, 100]
    /\ summary.total_payments = 240

\* C2 as stated: under reduce_term, for any valid loan, the payment is
\* never recomputed: the monthly_payment held (and returned) is the one
\* first computed, every entry shows it, and there are at most termMonths
\* entries.
C2_Original ==
    (strategy = "reduce_term" /\ ValidLoan /\ pc \notin {"call", "raised"}) =>
        /\ monthly_payment \in InitialPayment
        /\ \A i \in 1 .. Len(schedule) :
              schedule[i].payment = Round2[monthly_payment]
        /\ Len(schedule) <= total_payments
        /\ pc = "done" => summary.monthly_payment = Round2[monthly_payment]

\* C2 amended: under reduce_term, for any valid loan, the payment is never
\* recomputed: the monthly_payment held (and returned) is the one first
\* computed; for a loan of at most 10 000 000 over at most 30 years at a
\* rate of 0 or 0.01 % to 36 % every entry shows that payment rounded to
\* two decimals or a value 0.01 from it, and there are at most termMonths
\* entries.
C2_Amended ==
    (strategy = "reduce_term" /\ ValidLoan /\ pc \notin {"call", "raised"}) =>
        /\ monthly_payment \in InitialPayment
        /\ pc = "done" => summary.monthly_payment = Round2[monthly_payment]
        /\ OrdinaryLoan =>
              /\ \A i \in 1 .. Len(schedule) :
                    WithinCent(schedule[i].payment, Round2[monthly_payment])
              /\ Len(schedule) <= total_payments

\* the scenario with 500 000 prepaid in month 12: the payment stays
\* 11580.26 and the schedule ends after 94 of 240 months
C2_Witness ==
    /\ pc = "done" /\ strategy = "reduce_term" /\ Scenario /\ OrdinaryLoan
    /\ Len(schedule) = 94
    /\ schedule[12].extra = FromInt[500000]
    /\ DPositive(schedule[12].remaining_balance)
    /\ schedule[11].payment = Decimal[1158026, 100]
    /\ schedule[13].payment = Decimal[1158026, 100]
    /\ Last(schedule).payment = Decimal[1158026, 100]

\* C3 as stated: under reduce_payment, with prepayments of amount > 0 in
\* months 1..termMonths, the schedule has exactly termMonths entries.
C3_Original ==
    (LoopDone /\ strategy = "reduce_payment" /\ ValidLoan
       /\ AllPrepaymentsInTerm) =>
        Len(schedule) = total_payments

\* C3 amended: under reduce_payment, for a loan of at most 10 000 000 over
\* at most 30 years at a rate of 0 or 0.01 % to 36 % with prepayments of
\* amount > 0 in months 1..termMonths, the schedule never has more than
\* termMonths entries, and it has fewer only if it ends in a month that
\* carries a prepayment (which paid the balance off) or the final monthly
\* payment is at most 0.01.
C3_Amended ==
    (LoopDone /\ strategy = "reduce_payment" /\ OrdinaryLoan
       /\ AllPrepaymentsInTerm) =>
        /\ Len(schedule) >= 1
        /\ Len(schedule) <= total_payments
        /\ Len(schedule) < total_payments =>
              \/ DPositive(Last(schedule).extra)
              \/ ~PaymentAboveCent(monthly_payment)

\* the scenario with 500 000 prepaid in month 12: 240 entries
C3_Witness ==
    /\ LoopDone /\ strategy = "reduce_payment" /\ Scenario /\ OrdinaryLoan
    /\ AllPrepaymentsInTerm
    /\ Len(schedule) = 240
    /\ schedule[12].extra = FromInt[500000]
    /\ DPositive(schedule[12].remaining_balance)
    /\ Last(schedule).remaining_balance = Zero

\* C4 as stated: under reduce_payment with rate > 0, after a prepayment
\* applied in month m that leaves a positive balance, every later entry
\* shows a payment strictly less than every entry up to and including m.
C4_Original ==
    (strategy = "reduce_payment" /\ DPositive(interest_rate) /\ ValidLoan) =>
        \A m \in 1 .. Len(schedule) :
            (DPositive(schedule[m].extra)
               /\ DPositive(schedule[m].remaining_balance)) =>
                \A i \in 1 .. m : \A j \in (m + 1) .. Len(schedule) :
                    DLess(schedule[j].payment, schedule[i].payment)

\* C4 amended: under reduce_payment, for a loan of at most 10 000 000 over
\* at most 30 years at a rate between 0.01 % and 36 %, in every period that
\* appends an entry: (1) when the period's prepayment is at least 0.01 and
\* leaves a balance above the stop threshold, the recomputed monthly
\* payment is strictly less than the one before; (2) the entry shows the
\* payment in force before the period rounded to two decimals, or a value
\* 0.01 from it; (3) the entry's payment does not exceed the payment of
\* any entry up to and including the last earlier month with a prepayment
\* of at least 0.01; (4) when the schedule ends in a month without
\* prepayment and with a payment above 0.01, it ends
\* max(1, termMonths - m) periods after the last month m with a prepayment.
C4_Amended ==
    [][(pc = "loop" /\ Len(schedule') = Len(schedule) + 1
          /\ strategy = "reduce_payment" /\ DPositive(interest_rate)
          /\ OrdinaryLoan) =>
         /\ (pc' = "loop"
               /\ DLessEq(Cent, MapGet(prepay_map, current_payment_index'))) =>
                  DLess(monthly_payment', monthly_payment)
         /\ WithinCent(Last(schedule').payment, Round2[monthly_payment])
         /\ \A i \in 1 .. LastPrepaid(Len(schedule), Cent) :
               DLessEq(Last(schedule').payment, schedule[i].payment)
         /\ (pc' = "totals" /\ PaymentAboveCent(monthly_payment)
               /\ ~DPositive(MapGet(prepay_map, current_payment_index'))
               /\ LastPrepaid(Len(schedule), PowerOfTwo[MinExp]) > 0) =>
                  Len(schedule')
                     - LastPrepaid(Len(schedule), PowerOfTwo[MinExp])
                    = Max(1, total_payments
                              - LastPrepaid(Len(schedule), PowerOfTwo[MinExp]))
       ]_vars

\* the scenario with 500 000 prepaid in month 12: the payment falls from
\* 11580.26 to 6673.97 after month 12
C4_Witness ==
    /\ pc = "done" /\ strategy = "reduce_payment" /\ Scenario /\ OrdinaryLoan
    /\ schedule[12].extra = FromInt[500000]
    /\ schedule[12].payment = Decimal[1158026, 100]
    /\ schedule[13].payment = Decimal[667397, 100]
    /\ Last(schedule).payment = Decimal[667397, 100]
    /\ summary.monthly_payment = Decimal[667397, 100]
    /\ Len(schedule) = 12 + Max(1, total_payments - 12)

\* C5: along any schedule of a valid loan remaining_balance never
\* increases, is never negative, and is exactly 0 in the final entry.
C5_BalanceReachesZero ==
    (ValidLoan /\ pc \notin {"call", "raised"}) =>
        /\ DLessEq(Zero, remaining_balance)
        /\ \A i \in 1 .. Len(schedule) :
              /\ DLessEq(Zero, schedule[i].remaining_balance)
              /\ DLessEq(schedule[i].remaining_balance, StartBalance(i))
        /\ LoopDone =>
              /\ Len(schedule) >= 1
              /\ Last(schedule).remaining_balance = Zero
              /\ remaining_balance = Zero

\* total_payments = years * 12 > 0
TermPositive == years > 0

Completed == pc = "done"

\* C6: for every input with termMonths > 0 and rate >= 0 the loop
\* terminates without an error, emits at most 1000 * termMonths entries,
\* and stops as soon as the balance after a period is <= 0.005.
C6_LoopTerminates ==
    /\ [](TermPositive /\ DLessEq(Zero, interest_rate) =>
            /\ pc # "raised"
            /\ pc # "call" => Len(schedule) <= CapFactor * total_payments
            /\ (pc = "loop" /\ schedule # <<>>) =>
                  DLess(StopBalance, remaining_balance))
    /\ (TermPositive /\ DLessEq(Zero, interest_rate)) ~> Completed

\* C7: with termMonths <= 0 the call fails with the InvalidTerm error
\* before the loop: no entry is produced and no result is returned.
C7_InvalidTermRefused ==
    (years * MonthsPerYear <= 0) =>
        /\ pc \in {"call", "raised"}
        /\ pc = "raised" => exception = "ValueError"
        /\ schedule = <<>>
        /\ current_payment_index = 0
        /\ summary = NoSummary

C7_Witness ==
    /\ pc = "raised" /\ exception = "ValueError"
    /\ years * MonthsPerYear <= 0
    /\ DPositive(loan_amount) /\ prepayments # <<>>
    /\ schedule = <<>> /\ summary = NoSummary

\* C8: of the events for one month, the last one with amount > 0 is the
\* one kept and recorded for that month; events with amount <= 0 are not
\* kept, and events for other months have no influence.
C8_LastPrepaymentWins ==
    (pc \notin {"call", "raised"}) =>
        /\ DOMAIN prepay_map =
              {prepayments[i].month :
                  i \in {j \in 1 .. Len(prepayments) :
                            DPositive(LastPositive(prepayments[j].month))}}
        /\ \A m \in DOMAIN prepay_map : prepay_map[m] = LastPositive(m)
        /\ \A i \in 1 .. Len(schedule) :
              schedule[i].extra = Round2[LastPositive(schedule[i].month)]

C8_Witness ==
    /\ pc = "done"
    /\ \E i \in 1 .. Len(prepayments) : \E j \in 1 .. Len(prepayments) :
          /\ i < j
          /\ prepayments[i].month = prepayments[j].month
          /\ DPositive(prepayments[i].amount)
          /\ DPositive(prepayments[j].amount)
          /\ prepayments[i].amount # prepayments[j].amount
          /\ \E k \in 1 .. Len(schedule) :
                /\ schedule[k].month = prepayments[j].month
                /\ schedule[k].extra = Round2[prepayments[j].amount]
                /\ DPositive(schedule[k].remaining_balance)

\* C9: an entry records extra > 0 only when the prepayment was applied,
\* i.e. the balance after the period's standard payment was still positive
\* and was reduced by it.
C9_ExtraOnlyWhenApplied ==
    [][(pc = "loop" /\ Len(schedule') = Len(schedule) + 1) =>
         (DPositive(Last(schedule').extra) =>
             DPositive(AfterStandard(remaining_balance,
                 PrincipalPayment(monthly_payment,
                                  InterestPayment(remaining_balance)))))]_vars

\* C10: in every entry principal + extra does not exceed the balance at the
\* start of the period (two cents of rounding allowed), and a schedule that
\* ends at balance 0 has repaid the principal exactly once (one cent of
\* rounding per entry allowed).
C10_NeverMoreThanOwed ==
    (ValidLoan /\ pc \notin {"call", "raised"}) =>
        /\ \A i \in 1 .. Len(schedule) :
              DLess(DAdd[schedule[i].principal, schedule[i].extra],
                    DAdd[StartBalance(i), Decimal[25, 1000]])
        /\ LoopDone =>
              DLess(DAdd[SumField(schedule, "principal"),
                         SumField(schedule, "extra")],
                    DAdd[Round2[loan_amount],
                         DMul[Cent, Decimal[2 * Len(schedule) + 1, 2]]])
====
